---- MODULE Spec2Model ----
(***************************************************************************)
(* Lagrange and natural-cubic-spline interpolation of the repository,      *)
(* modelled over exact rational arithmetic.                                *)
(*                                                                         *)
(* A float64 is modelled as a reduced fraction <<num, den>> with den > 0.  *)
(* The one extra value NonFinite == <<0, 0>> stands for a float that is    *)
(* +Inf, -Inf or NaN, or that was computed from one: Go's float division   *)
(* by zero does not panic, it yields such a value.  Which of the three it  *)
(* is, is not tracked: no property below depends on it, and no comparison  *)
(* the code makes meets such a value when the inputs are finite.  Rounding *)
(* is not modelled.  Slices are functions over 0 .. len-1, as the code     *)
(* indexes them.  math.Cos, whose values at the Chebyshev angles are       *)
(* irrational, is a table of its values to two decimal places.             *)
(*                                                                         *)
(* Three specifications: Spec runs the driver on one Sample Set, with the  *)
(* spline models of the three variants of the program built from it;       *)
(* ChebyshevSpec runs the driver that also makes the Chebyshev Sample Set; *)
(* SolverSpec calls the solvers on systems drawn in its initial states.    *)
(***************************************************************************)
EXTENDS Integers, Sequences, FiniteSets, TLC

VARIABLES
  data,  \* the Sample Set (InterpolationData) of the run
  f,     \* the test function the Sample Set was sampled from
  cheb,  \* the Chebyshev Sample Set of the run, where the driver makes one
  cs,    \* the spline model (CubicSpline) built from data
  cc,    \* the spline model of the coefficient-array variant, from data
  ts,    \* the spline model of the tridiagonal-sweep variant, from data
  call,  \* the evaluator call made: its argument x and what it returned
  sys    \* a direct solver call: A, b and the solution returned

vars == <<data, f, cheb, cs, cc, ts, call, sys>>

---------------------------------------------------------------------------
(* Bounds of the model.                                                    *)

MaxN == 3
MaxA == 1
MaxB == 2
MaxX == 3
MaxEntry == 2
MaxChebN == 2

---------------------------------------------------------------------------
(* float64 arithmetic, exact.                                              *)

NonFinite == <<0, 0>>

IsFinite(p) == p[2] # 0

IAbs(i) == IF i < 0 THEN -i ELSE i

RECURSIVE GCD(_, _)
GCD(m, n) == IF n = 0 THEN m ELSE GCD(n, m % n)

Rat(n, d) ==
  IF d = 0 THEN NonFinite
  ELSE LET g == GCD(IAbs(n), IAbs(d))
           s == IF d < 0 THEN -1 ELSE 1
       IN <<s * (n \div g), s * (d \div g)>>

FromInt(i) == <<i, 1>>

Zero == FromInt(0)
One == FromInt(1)
Two == FromInt(2)
Six == FromInt(6)

\* The sum over the least common denominator, so that the intermediate
\* products stay small.
RAdd(p, q) ==
  IF IsFinite(p) /\ IsFinite(q)
  THEN LET g == GCD(p[2], q[2])
       IN Rat(p[1] * (q[2] \div g) + q[1] * (p[2] \div g),
              (p[2] \div g) * q[2])
  ELSE NonFinite

RNeg(p) == IF IsFinite(p) THEN <<-p[1], p[2]>> ELSE NonFinite

RSub(p, q) == RAdd(p, RNeg(q))

\* The product, the common factors of each numerator and the other
\* denominator divided out first.
RMul(p, q) ==
  IF IsFinite(p) /\ IsFinite(q)
  THEN LET g1 == GCD(IAbs(p[1]), q[2])
           g2 == GCD(IAbs(q[1]), p[2])
       IN Rat((p[1] \div g1) * (q[1] \div g2),
              (p[2] \div g2) * (q[2] \div g1))
  ELSE NonFinite

\* x / 0 is +Inf, -Inf or NaN in float64: NonFinite.
RDiv(p, q) ==
  IF IsFinite(p) /\ IsFinite(q)
  THEN IF q[1] = 0 THEN NonFinite
       ELSE RMul(p, IF q[1] < 0 THEN <<-q[2], -q[1]>> ELSE <<q[2], q[1]>>)
  ELSE NonFinite

\* Comparisons; every comparison with NaN is false.
RLe(p, q) ==
  /\ IsFinite(p)
  /\ IsFinite(q)
  /\ LET g == GCD(p[2], q[2])
     IN p[1] * (q[2] \div g) <= q[1] * (p[2] \div g)
RGe(p, q) == RLe(q, p)
RLt(p, q) ==
  /\ IsFinite(p)
  /\ IsFinite(q)
  /\ LET g == GCD(p[2], q[2])
     IN p[1] * (q[2] \div g) < q[1] * (p[2] \div g)
RGt(p, q) == RLt(q, p)

\* The tolerance 1e-12 is 1 / (TolRoot * TolRoot).
TolRoot == 1000000

\* math.Abs(p) < 1e-12, that is |num| * 10^12 < den, computed without the
\* product: |num| * T < den  iff  T <= (den - 1) \div |num|.
AbsLtTol(p) ==
  /\ IsFinite(p)
  /\ \/ p[1] = 0
     \/ TolRoot <= ((p[2] - 1) \div IAbs(p[1])) \div TolRoot

\* math.Abs(p) > 1e-12, that is |num| * 10^12 > den.
AbsGtTol(p) ==
  /\ IsFinite(p)
  /\ p[1] # 0
  /\ ~ (TolRoot <= (p[2] \div IAbs(p[1])) \div TolRoot)

Cube(p) == RMul(p, RMul(p, p))

Len0(s) == Cardinality(DOMAIN s)

---------------------------------------------------------------------------
(* Matrix and the Gaussian solvers.                                        *)

\* NewMatrix(rows, cols): a zero matrix.
NewMatrix(rows, cols) ==
  [rows |-> rows, cols |-> cols,
   data |-> [i \in 0 .. rows - 1 |-> [j \in 0 .. cols - 1 |-> Zero]]]

\* The augmented n x (n+1) copy of A and b the solver works on.
Augment(A, b) ==
  LET n == A.rows
  IN [i \in 0 .. n - 1 |->
        [j \in 0 .. n |-> IF j < n THEN A.data[i][j] ELSE b[i]]]

\* Row k after "factor := a[k][i] / a[i][i]; for j := i; j <= n; j++ ...".
EliminateRow(aug, i, k, n) ==
  LET factor == RDiv(aug[k][i], aug[i][i])
  IN [j \in 0 .. n |->
        IF j >= i THEN RSub(aug[k][j], RMul(factor, aug[i][j])) ELSE aug[k][j]]

\* Mutant of ForwardStep: a pivot below the tolerance is swapped with the
\* first lower row that has a usable entry in column i.
ForwardStepSwapping(aug, i, n) ==
  LET cand == {k \in i + 1 .. n - 1 : ~ AbsLtTol(aug[k][i])}
      k0 == CHOOSE k \in cand : \A m \in cand : k <= m
      sw == IF AbsLtTol(aug[i][i]) /\ cand # {}
            THEN [aug EXCEPT ![i] = aug[k0], ![k0] = aug[i]]
            ELSE aug
  IN [k \in 0 .. n - 1 |->
        IF k > i /\ ~ AbsLtTol(sw[i][i]) THEN EliminateRow(sw, i, k, n)
        ELSE sw[k]]

\* One pass of the outer loop of the forward phase, pivot index i: every
\* row k > i is skipped when |a[i][i]| < 1e-12 (row i itself does not change
\* during the pass, so the test has the same outcome for every k).
\* Mutant of ForwardStep: the tolerance test is made on the entry to be
\* eliminated instead of on the pivot.
ForwardStepTestsEntry(aug, i, n) ==
  [k \in 0 .. n - 1 |->
     IF k > i /\ ~ AbsLtTol(aug[k][i]) THEN EliminateRow(aug, i, k, n)
     ELSE aug[k]]

ForwardStep(aug, i, n) ==
  [k \in 0 .. n - 1 |->
     IF k > i /\ ~ AbsLtTol(aug[i][i]) THEN EliminateRow(aug, i, k, n)
     ELSE aug[k]]

RECURSIVE ForwardFrom(_, _, _)
ForwardFrom(aug, i, n) ==
  IF i >= n THEN aug ELSE ForwardFrom(ForwardStep(aug, i, n), i + 1, n)

ForwardElimination(aug, n) == ForwardFrom(aug, 0, n)

\* Mutant of Accumulate: the products are added instead of subtracted.
RECURSIVE AccumulateAdding(_, _, _, _, _, _)
AccumulateAdding(aug, sol, i, j, n, acc) ==
  IF j >= n THEN acc
  ELSE AccumulateAdding(aug, sol, i, j + 1, n,
                        RAdd(acc, RMul(aug[i][j], sol[j])))

\* solution[i] = a[i][n] - sum over j > i of a[i][j] * solution[j], the
\* subtractions done for j = i+1, i+2, ...
RECURSIVE Accumulate(_, _, _, _, _, _)
Accumulate(aug, sol, i, j, n, acc) ==
  IF j >= n THEN acc
  ELSE Accumulate(aug, sol, i, j + 1, n, RSub(acc, RMul(aug[i][j], sol[j])))

\* Mutant of BackStep: the division is made whatever the pivot is.
BackStepAlwaysDivides(aug, sol, i, n) ==
  LET acc == Accumulate(aug, sol, i, i + 1, n, aug[i][n])
  IN [sol EXCEPT ![i] = RDiv(acc, aug[i][i])]

\* One pass of the back-substitution loop: the division happens only when
\* |a[i][i]| > 1e-12.
BackStep(aug, sol, i, n) ==
  LET acc == Accumulate(aug, sol, i, i + 1, n, aug[i][n])
  IN [sol EXCEPT ![i] = IF AbsGtTol(aug[i][i]) THEN RDiv(acc, aug[i][i])
                        ELSE acc]

RECURSIVE BackFrom(_, _, _, _)
BackFrom(aug, sol, i, n) ==
  IF i < 0 THEN sol ELSE BackFrom(aug, BackStep(aug, sol, i, n), i - 1, n)

BackSubstitution(aug, n) ==
  BackFrom(aug, [i \in 0 .. n - 1 |-> Zero], n - 1, n)

\* SolveLinearSystem of main.go (the same text as solveLinearSystem).
SolveLinearSystem(A, b) ==
  LET n == A.rows
  IN BackSubstitution(ForwardElimination(Augment(A, b), n), n)

\* The solver of the coefficient-array variant: no tolerance tests.
ForwardStepUnguarded(aug, i, n) ==
  [k \in 0 .. n - 1 |->
     IF k > i THEN EliminateRow(aug, i, k, n) ELSE aug[k]]

RECURSIVE ForwardFromUnguarded(_, _, _)
ForwardFromUnguarded(aug, i, n) ==
  IF i >= n THEN aug
  ELSE ForwardFromUnguarded(ForwardStepUnguarded(aug, i, n), i + 1, n)

\* Mutant of BackStepUnguarded: the right-hand side is divided by the pivot
\* before the solved unknowns are subtracted.
BackStepUnguardedDividesFirst(aug, sol, i, n) ==
  [sol EXCEPT ![i] =
     Accumulate(aug, sol, i, i + 1, n, RDiv(aug[i][n], aug[i][i]))]

BackStepUnguarded(aug, sol, i, n) ==
  [sol EXCEPT ![i] =
     RDiv(Accumulate(aug, sol, i, i + 1, n, aug[i][n]), aug[i][i])]

RECURSIVE BackFromUnguarded(_, _, _, _)
BackFromUnguarded(aug, sol, i, n) ==
  IF i < 0 THEN sol
  ELSE BackFromUnguarded(aug, BackStepUnguarded(aug, sol, i, n), i - 1, n)

SolveLinearSystemUnguarded(A, b) ==
  LET n == A.rows
  IN BackFromUnguarded(ForwardFromUnguarded(Augment(A, b), 0, n),
                       [i \in 0 .. n - 1 |-> Zero], n - 1, n)

---------------------------------------------------------------------------
(* Grid generation and the Lagrange evaluator.                             *)

NoPoints == [i \in {} |-> Zero]

NoData == [kind |-> "none", Points |-> NoPoints, A |-> Zero, B |-> Zero, N |-> 0]

\* make([]Point, n+1) panics when n+1 < 0.
PanicData == [NoData EXCEPT !.kind = "panic"]

\* Mutant of GridX: the step computed as (b - a) / (n + 1).
GridXStepOverNodes(a, b, n, i) ==
  RAdd(a, RMul(FromInt(i), RDiv(RSub(b, a), FromInt(n + 1))))

\* The abscissa CreateGrid computes for index i.
GridX(a, b, n, i) == RAdd(a, RMul(FromInt(i), RDiv(RSub(b, a), FromInt(n))))

CreateGrid(a, b, n, fn) ==
  IF n + 1 < 0 THEN PanicData
  ELSE [kind |-> "grid",
        Points |-> [i \in 0 .. n |->
                      [X |-> GridX(a, b, n, i), Y |-> fn[GridX(a, b, n, i)]]],
        A |-> a, B |-> b, N |-> n]

\* Mutant of Basis: the factor for j = i is not skipped.
RECURSIVE BasisNoSkip(_, _, _, _, _)
BasisNoSkip(pts, x, i, j, li) ==
  IF j >= Len0(pts) THEN li
  ELSE BasisNoSkip(pts, x, i, j + 1,
                   RMul(li, RDiv(RSub(x, pts[j].X), RSub(pts[i].X, pts[j].X))))

\* The inner loop from index j on, li being the product so far.
RECURSIVE Basis(_, _, _, _, _)
Basis(pts, x, i, j, li) ==
  IF j >= Len0(pts) THEN li
  ELSE IF i # j
       THEN Basis(pts, x, i, j + 1,
                  RMul(li, RDiv(RSub(x, pts[j].X), RSub(pts[i].X, pts[j].X))))
       ELSE Basis(pts, x, i, j + 1, li)

\* The outer loop from index i on, result being the sum so far.
RECURSIVE LagrangeSum(_, _, _, _)
LagrangeSum(pts, x, i, result) ==
  IF i >= Len0(pts) THEN result
  ELSE LagrangeSum(pts, x, i + 1,
                   RAdd(result, RMul(pts[i].Y, Basis(pts, x, i, 0, One))))

LagrangeInterpolation(d, x) == LagrangeSum(d.Points, x, 0, Zero)

\* math.Cos(math.Pi * q) for the fractions q of a half turn that the grids
\* of the model meet, to two decimal places.  The exact values are
\* irrational except at q = 0, 1/3, 1/2, 2/3 and 1; the rounding is to the
\* nearest hundredth, as float64 rounds to the nearest of its values.
CosPi(q) ==
  Rat(CASE q = <<0, 1>> -> 100
        [] q = <<1, 10>> -> 95
        [] q = <<1, 8>> -> 92
        [] q = <<1, 6>> -> 87
        [] q = <<1, 4>> -> 71
        [] q = <<3, 10>> -> 59
        [] q = <<1, 3>> -> 50
        [] q = <<3, 8>> -> 38
        [] q = <<1, 2>> -> 0
        [] q = <<5, 8>> -> -38
        [] q = <<2, 3>> -> -50
        [] q = <<7, 10>> -> -59
        [] q = <<3, 4>> -> -71
        [] q = <<5, 6>> -> -87
        [] q = <<7, 8>> -> -92
        [] q = <<9, 10>> -> -95
        [] q = <<1, 1>> -> -100,
      100)

\* Mutant of ChebyshevT: the angles i / (n+1) of the extrema instead of the
\* angles (2i+1) / (2(n+1)) of the roots.
ChebyshevTExtrema(i, n) == CosPi(Rat(2 * i, 2 * (n + 1)))

\* ti := math.Cos(math.Pi * float64(2*i+1) / float64(2*(n+1)))
ChebyshevT(i, n) == CosPi(Rat(2 * i + 1, 2 * (n + 1)))

\* x := (a+b)/2 + (b-a)/2*ti
ChebyshevX(a, b, n, i) ==
  RAdd(RDiv(RAdd(a, b), Two), RMul(RDiv(RSub(b, a), Two), ChebyshevT(i, n)))

\* createChebyshevGrid; make([]point, n+1) panics on a negative length.
CreateChebyshevGrid(a, b, n, fn) ==
  IF n + 1 < 0 THEN PanicData
  ELSE [kind |-> "grid",
        Points |-> [i \in 0 .. n |->
                      [X |-> ChebyshevX(a, b, n, i),
                       Y |-> fn[ChebyshevX(a, b, n, i)]]],
        A |-> a, B |-> b, N |-> n]

---------------------------------------------------------------------------
(* The closed-form natural cubic spline of main.go.                        *)

NoSpline ==
  [kind |-> "none", Points |-> NoPoints, SecondDerivatives |-> NoPoints,
   H |-> NoPoints]

\* make([]float64, n-1) panics when there are no points.
PanicSpline == [NoSpline EXCEPT !.kind = "panic"]

StepWidths(pts) ==
  [i \in 0 .. Len0(pts) - 2 |-> RSub(pts[i + 1].X, pts[i].X)]

\* Mutant of SplineMatrix: the boundary rows couple the end nodes to their
\* neighbours (2*h, h) instead of fixing them.
SplineMatrixCoupledEnds(pts, h) ==
  LET n == Len0(pts)
  IN [rows |-> n, cols |-> n,
      data |-> [i \in 0 .. n - 1 |-> [j \in 0 .. n - 1 |->
        IF n < 2 THEN One
        ELSE IF i = 0
        THEN (IF j = 0 THEN RMul(Two, h[0]) ELSE IF j = 1 THEN h[0] ELSE Zero)
        ELSE IF i = n - 1
        THEN (IF j = i THEN RMul(Two, h[i - 1])
              ELSE IF j = i - 1 THEN h[i - 1] ELSE Zero)
        ELSE IF j = i - 1 THEN h[i - 1]
        ELSE IF j = i THEN RMul(Two, RAdd(h[i - 1], h[i]))
        ELSE IF j = i + 1 THEN h[i]
        ELSE Zero]]]

\* Mutant of SplineMatrix: the diagonal of an interior row is h[i-1] + h[i],
\* without the factor 2.
SplineMatrixPlainDiagonal(pts, h) ==
  LET n == Len0(pts)
  IN [rows |-> n, cols |-> n,
      data |-> [i \in 0 .. n - 1 |-> [j \in 0 .. n - 1 |->
        IF i = 0 \/ i = n - 1 THEN (IF j = i THEN One ELSE Zero)
        ELSE IF j = i - 1 THEN h[i - 1]
        ELSE IF j = i THEN RAdd(h[i - 1], h[i])
        ELSE IF j = i + 1 THEN h[i]
        ELSE Zero]]]

SplineMatrix(pts, h) ==
  LET n == Len0(pts)
  IN [rows |-> n, cols |-> n,
      data |-> [i \in 0 .. n - 1 |-> [j \in 0 .. n - 1 |->
        IF i = 0 \/ i = n - 1 THEN (IF j = i THEN One ELSE Zero)
        ELSE IF j = i - 1 THEN h[i - 1]
        ELSE IF j = i THEN RMul(Two, RAdd(h[i - 1], h[i]))
        ELSE IF j = i + 1 THEN h[i]
        ELSE Zero]]]

\* Mutant of SplineRhs: the factor 3 of the c-coefficient form instead of 6.
SplineRhsFactorThree(pts, h) ==
  LET n == Len0(pts)
  IN [i \in 0 .. n - 1 |->
        IF i = 0 \/ i = n - 1 THEN Zero
        ELSE RMul(FromInt(3),
                  RSub(RDiv(RSub(pts[i + 1].Y, pts[i].Y), h[i]),
                       RDiv(RSub(pts[i].Y, pts[i - 1].Y), h[i - 1])))]

SplineRhs(pts, h) ==
  LET n == Len0(pts)
  IN [i \in 0 .. n - 1 |->
        IF i = 0 \/ i = n - 1 THEN Zero
        ELSE RMul(Six, RSub(RDiv(RSub(pts[i + 1].Y, pts[i].Y), h[i]),
                            RDiv(RSub(pts[i].Y, pts[i - 1].Y), h[i - 1])))]

NewCubicSpline(d) ==
  LET pts == d.Points
      h == StepWidths(pts)
  IN IF Len0(pts) = 0 THEN PanicSpline
     ELSE [kind |-> "ok", Points |-> pts,
           SecondDerivatives |->
             SolveLinearSystem(SplineMatrix(pts, h), SplineRhs(pts, h)),
           H |-> h]

\* Mutant of FindSegment: the segments are taken half-open, [x_i, x_(i+1)).
RECURSIVE FindSegmentHalfOpen(_, _, _)
FindSegmentHalfOpen(pts, x, i) ==
  IF i < Len0(pts) - 1
  THEN IF RGe(x, pts[i].X) /\ RLt(x, pts[i + 1].X) THEN i
       ELSE FindSegmentHalfOpen(pts, x, i + 1)
  ELSE i

\* The linear scan "for i < n-1 { if x >= X[i] && x <= X[i+1] { break }; i++ }".
RECURSIVE FindSegment(_, _, _)
FindSegment(pts, x, i) ==
  IF i < Len0(pts) - 1
  THEN IF RGe(x, pts[i].X) /\ RLe(x, pts[i + 1].X) THEN i
       ELSE FindSegment(pts, x, i + 1)
  ELSE i

\* Mutant of SegmentValue: h instead of h*h in the third and fourth terms.
SegmentValueLinearH(s, i, x) ==
  LET xi == s.Points[i].X
      xi1 == s.Points[i + 1].X
      hi1 == s.H[i]
      xi1MinusX == RSub(xi1, x)
      xMinusXi == RSub(x, xi)
      term1 == RDiv(RMul(s.Points[i].Y, RSub(xi1, x)), hi1)
      term2 == RDiv(RMul(s.Points[i + 1].Y, RSub(x, xi)), hi1)
      term3 == RDiv(RMul(s.SecondDerivatives[i],
                         RSub(Cube(xi1MinusX), RMul(hi1, xi1MinusX))),
                    RMul(Six, hi1))
      term4 == RDiv(RMul(s.SecondDerivatives[i + 1],
                         RSub(Cube(xMinusXi), RMul(hi1, xMinusXi))),
                    RMul(Six, hi1))
  IN RAdd(RAdd(RAdd(term1, term2), term3), term4)

\* Formula (2.61) on segment i.
SegmentValue(s, i, x) ==
  LET xi == s.Points[i].X
      xi1 == s.Points[i + 1].X
      yi == s.Points[i].Y
      yi1 == s.Points[i + 1].Y
      hi1 == s.H[i]
      gammai == s.SecondDerivatives[i]
      gammai1 == s.SecondDerivatives[i + 1]
      term1 == RDiv(RMul(yi, RSub(xi1, x)), hi1)
      term2 == RDiv(RMul(yi1, RSub(x, xi)), hi1)
      xi1MinusX == RSub(xi1, x)
      xMinusXi == RSub(x, xi)
      term3 == RDiv(RMul(gammai, RSub(Cube(xi1MinusX),
                                      RMul(RMul(hi1, hi1), xi1MinusX))),
                    RMul(Six, hi1))
      term4 == RDiv(RMul(gammai1, RSub(Cube(xMinusXi),
                                       RMul(RMul(hi1, hi1), xMinusXi))),
                    RMul(Six, hi1))
  IN RAdd(RAdd(RAdd(term1, term2), term3), term4)

\* Evaluate: the scan, then the formula.  Reading Points[i+1] past the end
\* of the slice is a run-time panic.
Evaluate(s, x) ==
  LET i == FindSegment(s.Points, x, 0)
  IN IF i + 1 >= Len0(s.Points)
     THEN [panic |-> TRUE, seg |-> i, value |-> Zero]
     ELSE [panic |-> FALSE, seg |-> i, value |-> SegmentValue(s, i, x)]

---------------------------------------------------------------------------
(* The coefficient-array variant: the same system, solved by the solver    *)
(* without tolerance tests, then one (A, B, C, D) per segment.             *)

NoCoefficientSpline ==
  [kind |-> "none", Points |-> NoPoints, Coefficients |-> NoPoints]

\* make([]float64, n-1) panics when there are no points.
PanicCoefficientSpline == [NoCoefficientSpline EXCEPT !.kind = "panic"]

SplineCoefficient(pts, h, sd, i) ==
  [A |-> RDiv(RSub(sd[i + 1], sd[i]), RMul(Six, h[i])),
   B |-> RDiv(sd[i], Two),
   C |-> RSub(RDiv(RSub(pts[i + 1].Y, pts[i].Y), h[i]),
              RDiv(RAdd(RMul(RMul(Two, h[i]), sd[i]), RMul(h[i], sd[i + 1])),
                   Six)),
   D |-> pts[i].Y]

NewCubicSplineCoefficients(d) ==
  LET pts == d.Points
      n == Len0(pts)
      h == StepWidths(pts)
      sd == SolveLinearSystemUnguarded(SplineMatrix(pts, h), SplineRhs(pts, h))
  IN IF n = 0 THEN PanicCoefficientSpline
     ELSE [kind |-> "ok", Points |-> pts,
           Coefficients |->
             [i \in 0 .. n - 2 |-> SplineCoefficient(pts, h, sd, i)]]

\* Evaluate of the variant: the same scan, then Coefficients[i], which has
\* one entry per segment: an index past the last segment is a run-time panic.
EvaluateCoefficients(s, t) ==
  LET i == FindSegment(s.Points, t, 0)
  IN IF i \notin DOMAIN s.Coefficients
     THEN [panic |-> TRUE, seg |-> i, value |-> Zero]
     ELSE LET coeff == s.Coefficients[i]
              deltaX == RSub(t, s.Points[i].X)
          IN [panic |-> FALSE, seg |-> i,
              value |->
                RAdd(RAdd(RAdd(RMul(RMul(RMul(coeff.A, deltaX), deltaX),
                                    deltaX),
                               RMul(RMul(coeff.B, deltaX), deltaX)),
                          RMul(coeff.C, deltaX)),
                     coeff.D)]

---------------------------------------------------------------------------
(* The tridiagonal-sweep variant: the system for c_i = gamma_i / 2 is      *)
(* solved in place by a forward sweep (l, mu, z) and a backward sweep.     *)

Three == FromInt(3)

NoSweepSpline ==
  [kind |-> "none", Points |-> NoPoints, A |-> NoPoints, B |-> NoPoints,
   C |-> NoPoints, D |-> NoPoints]

\* n := len(points) - 1; make([]float64, n) panics when there are no points.
PanicSweepSpline == [NoSweepSpline EXCEPT !.kind = "panic"]

\* alpha has one entry per segment; alpha[0] keeps the zero make gave it.
SweepAlpha(pts, h) ==
  [i \in 0 .. Len0(pts) - 2 |->
     IF i = 0 THEN Zero
     ELSE RSub(RMul(RDiv(Three, h[i]), RSub(pts[i + 1].Y, pts[i].Y)),
               RMul(RDiv(Three, h[i - 1]), RSub(pts[i].Y, pts[i - 1].Y)))]

\* Mutant of SweepForwardStep: the diagonal is taken as 2*h[i], the term of
\* the left neighbour is dropped.
SweepForwardStepHalfDiagonal(pts, h, alpha, st, i) ==
  LET li == RSub(RMul(Two, h[i]), RMul(h[i - 1], st.mu[i - 1]))
  IN [l |-> [st.l EXCEPT ![i] = li],
      mu |-> [st.mu EXCEPT ![i] = RDiv(h[i], li)],
      z |-> [st.z EXCEPT ![i] =
               RDiv(RSub(alpha[i], RMul(h[i - 1], st.z[i - 1])), li)]]

\* One pass of "for i := 1; i < n; i++": l[i], mu[i], z[i].
SweepForwardStep(pts, h, alpha, st, i) ==
  LET li == RSub(RMul(Two, RSub(pts[i + 1].X, pts[i - 1].X)),
                 RMul(h[i - 1], st.mu[i - 1]))
  IN [l |-> [st.l EXCEPT ![i] = li],
      mu |-> [st.mu EXCEPT ![i] = RDiv(h[i], li)],
      z |-> [st.z EXCEPT ![i] =
               RDiv(RSub(alpha[i], RMul(h[i - 1], st.z[i - 1])), li)]]

RECURSIVE SweepForwardFrom(_, _, _, _, _)
SweepForwardFrom(pts, h, alpha, st, i) ==
  IF i < Len0(pts) - 1
  THEN SweepForwardFrom(pts, h, alpha,
                        SweepForwardStep(pts, h, alpha, st, i), i + 1)
  ELSE st

\* l[0] = 1, mu[0] = 0, z[0] = 0, the loop, then l[n] = 1 and z[n] = 0.
SweepForward(pts, h, alpha) ==
  LET n == Len0(pts) - 1
      zeros == [i \in 0 .. n |-> Zero]
      st0 == [l |-> [zeros EXCEPT ![0] = One], mu |-> zeros, z |-> zeros]
      st == SweepForwardFrom(pts, h, alpha, st0, 1)
  IN [l |-> [st.l EXCEPT ![n] = One], mu |-> st.mu,
      z |-> [st.z EXCEPT ![n] = Zero]]

\* One pass of "for j := n - 1; j >= 0; j--": c[j], b[j], d[j], a[j].
SweepBackStep(pts, h, st, co, j) ==
  LET cj == RSub(st.z[j], RMul(st.mu[j], co.C[j + 1]))
  IN [A |-> [co.A EXCEPT ![j] = pts[j].Y],
      B |-> [co.B EXCEPT ![j] =
               RSub(RDiv(RSub(pts[j + 1].Y, pts[j].Y), h[j]),
                    RDiv(RMul(h[j], RAdd(co.C[j + 1], RMul(Two, cj))),
                         Three))],
      C |-> [co.C EXCEPT ![j] = cj],
      D |-> [co.D EXCEPT ![j] =
               RDiv(RSub(co.C[j + 1], cj), RMul(Three, h[j]))]]

RECURSIVE SweepBackFrom(_, _, _, _, _)
SweepBackFrom(pts, h, st, co, j) ==
  IF j >= 0
  THEN SweepBackFrom(pts, h, st, SweepBackStep(pts, h, st, co, j), j - 1)
  ELSE co

NewCubicSplineSweep(d) ==
  LET pts == d.Points
      n == Len0(pts) - 1
      h == StepWidths(pts)
      st == SweepForward(pts, h, SweepAlpha(pts, h))
      segs == [i \in 0 .. n - 1 |-> Zero]
      co0 == [A |-> segs, B |-> segs, C |-> [i \in 0 .. n |-> Zero],
              D |-> segs]
      co == SweepBackFrom(pts, h, st, co0, n - 1)
  IN IF n < 0 THEN PanicSweepSpline
     ELSE [kind |-> "ok", Points |-> pts, A |-> co.A, B |-> co.B,
           C |-> co.C, D |-> co.D]

\* The scan of the variant: j stays 0 unless a segment holds x.
RECURSIVE SweepScan(_, _, _)
SweepScan(pts, x, i) ==
  IF i < Len0(pts) - 1
  THEN IF RGe(x, pts[i].X) /\ RLe(x, pts[i + 1].X) THEN i
       ELSE SweepScan(pts, x, i + 1)
  ELSE 0

\* The scan, then the clamp to the first or the last segment.
SweepSegment(pts, x) ==
  LET n == Len0(pts) - 1
  IN IF RLt(x, pts[0].X) THEN 0
     ELSE IF RGt(x, pts[n].X) THEN n - 1
     ELSE SweepScan(pts, x, 0)

\* Evaluate of the variant.  Indexing Points or a coefficient slice outside
\* its range is a run-time panic.
EvaluateSweep(s, x) ==
  LET j == SweepSegment(s.Points, x)
  IN IF j \notin DOMAIN s.Points \/ j \notin DOMAIN s.A
     THEN [panic |-> TRUE, seg |-> j, value |-> Zero]
     ELSE LET dx == RSub(x, s.Points[j].X)
          IN [panic |-> FALSE, seg |-> j,
              value |->
                RAdd(RAdd(RAdd(s.A[j], RMul(s.B[j], dx)),
                          RMul(RMul(s.C[j], dx), dx)),
                     RMul(RMul(RMul(s.D[j], dx), dx), dx))]

---------------------------------------------------------------------------
(* The driver: the test function f, one Sample Set, the spline built from  *)
(* it, and one evaluator call made on them.  The evaluators only read data *)
(* and cs, so the outcome of a call does not depend on the calls before    *)
(* it: a run of the model makes one.                                       *)

NoCall ==
  [op |-> "none", x |-> Zero, seg |-> 0, value |-> Zero, panic |-> FALSE]

NoSys ==
  [kind |-> "none", A |-> NewMatrix(0, 0), b |-> NoPoints,
   solution |-> NoPoints]

\* The values the test function takes.  The interpolants are linear in the
\* vector of y values, and the vectors over {0, 1} span every y vector.
Ys == {Zero, One}

\* The grids requested: small intervals (b < a and b = a included), node
\* counts from -2 up, and the grid of the repository's scenario on [1, 6].
GridParams ==
  {<<a, b, n>> : a \in 0 .. MaxA, b \in 0 .. MaxB, n \in (-2) .. MaxN}
    \cup {<<1, 6, 5>>}

GridXs(a, b, n) == {GridX(FromInt(a), FromInt(b), n, i) : i \in 0 .. n}

\* The points at which the evaluators are queried: the nodes, the midpoints
\* of the segments, one point before the first node and one after the last.
QueryXs(pts) ==
  LET n == Len0(pts)
      fin == {i \in 0 .. n - 1 : IsFinite(pts[i].X)}
  IN {pts[i].X : i \in fin}
       \cup {RDiv(RAdd(pts[i].X, pts[i + 1].X), Two) : i \in 0 .. n - 2}
       \cup {RSub(pts[i].X, One) : i \in fin \cap {0}}
       \cup {RAdd(pts[i].X, One) : i \in fin \cap {n - 1}}
       \cup {Zero}

HasData == data.kind \in {"grid", "literal"}

Init ==
  /\ data = NoData
  /\ f = NoPoints
  /\ cheb = NoData
  /\ cs = NoSpline
  /\ cc = NoCoefficientSpline
  /\ ts = NoSweepSpline
  /\ call = NoCall
  /\ sys = NoSys

\* data := CreateGrid(a, b, n, f), f any function into Ys.  An iteration of
\* main's loop starts with no Sample Set and shares nothing with the others.
DoCreateGrid ==
  /\ data.kind = "none"
  /\ \E g \in GridParams :
       \E fn \in [GridXs(g[1], g[2], g[3]) -> Ys] :
         /\ f' = fn
         /\ data' = CreateGrid(FromInt(g[1]), FromInt(g[2]), g[3], fn)
  /\ cs' = NoSpline
  /\ call' = NoCall
  /\ UNCHANGED <<cheb, cc, ts, sys>>

\* data := InterpolationData{...} with strictly ascending integer abscissas
\* that need not be equally spaced.
DoLiteral ==
  /\ data.kind = "none"
  /\ \E n \in 2 .. MaxX + 1 :
       \E xs \in [0 .. n - 1 -> 0 .. MaxX] :
         /\ \A i \in 0 .. n - 2 : xs[i] < xs[i + 1]
         /\ \E ys \in [0 .. n - 1 -> Ys] :
              data' = [kind |-> "literal",
                       Points |-> [i \in 0 .. n - 1 |->
                                     [X |-> FromInt(xs[i]), Y |-> ys[i]]],
                       A |-> FromInt(xs[0]), B |-> FromInt(xs[n - 1]),
                       N |-> n - 1]
  /\ cs' = NoSpline
  /\ call' = NoCall
  /\ UNCHANGED <<f, cheb, cc, ts, sys>>

\* spline := NewCubicSpline(data), in each of the three variants of the
\* program: every variant builds its spline model from the same Sample Set.
DoNewCubicSpline ==
  /\ HasData
  /\ cs.kind = "none"
  /\ cs' = NewCubicSpline(data)
  /\ cc' = NewCubicSplineCoefficients(data)
  /\ ts' = NewCubicSplineSweep(data)
  /\ UNCHANGED <<data, f, cheb, call, sys>>

\* LagrangeInterpolation(data, x); CompareInterpolations builds the spline
\* before it calls the evaluators.
DoLagrange ==
  /\ cs.kind = "ok"
  /\ call.op = "none"
  /\ \E x \in QueryXs(data.Points) :
       call' = [op |-> "lagrange", x |-> x, seg |-> 0,
                value |-> LagrangeInterpolation(data, x), panic |-> FALSE]
  /\ UNCHANGED <<data, f, cheb, cs, cc, ts, sys>>

\* spline.Evaluate(x)
DoEvaluate ==
  /\ cs.kind = "ok"
  /\ call.op = "none"
  /\ \E x \in QueryXs(data.Points) :
       LET r == Evaluate(cs, x)
       IN call' = [op |-> "evaluate", x |-> x, seg |-> r.seg,
                   value |-> r.value, panic |-> r.panic]
  /\ UNCHANGED <<data, f, cheb, cs, cc, ts, sys>>

\* spline.Evaluate(x) of the coefficient-array variant
DoEvaluateCoefficients ==
  /\ cc.kind = "ok"
  /\ call.op = "none"
  /\ \E x \in QueryXs(data.Points) :
       LET r == EvaluateCoefficients(cc, x)
       IN call' = [op |-> "evaluateCoefficients", x |-> x, seg |-> r.seg,
                   value |-> r.value, panic |-> r.panic]
  /\ UNCHANGED <<data, f, cheb, cs, cc, ts, sys>>

\* spline.Evaluate(x) of the tridiagonal-sweep variant
DoEvaluateSweep ==
  /\ ts.kind = "ok"
  /\ call.op = "none"
  /\ \E x \in QueryXs(data.Points) :
       LET r == EvaluateSweep(ts, x)
       IN call' = [op |-> "evaluateSweep", x |-> x, seg |-> r.seg,
                   value |-> r.value, panic |-> r.panic]
  /\ UNCHANGED <<data, f, cheb, cs, cc, ts, sys>>

Next ==
  \/ DoCreateGrid
  \/ DoLiteral
  \/ DoNewCubicSpline
  \/ DoLagrange
  \/ DoEvaluate
  \/ DoEvaluateCoefficients
  \/ DoEvaluateSweep

Spec == Init /\ [][Next]_vars

---------------------------------------------------------------------------
(* The driver of the variant with Chebyshev nodes: main makes the uniform  *)
(* Sample Set, then the Chebyshev one with the same a, b, n and f, then    *)
(* compareInterpolations and generateHTML build the spline and call the    *)
(* evaluators.                                                             *)

ChebyshevXs(a, b, n) == {ChebyshevX(a, b, n, i) : i \in 0 .. n}

\* chebyshevData := createChebyshevGrid(a, b, n, testFunction).  f takes a
\* value in Ys at every node it was not sampled at yet.
DoCreateChebyshevGrid ==
  /\ data.kind = "grid"
  /\ data.N <= MaxChebN
  /\ cheb.kind = "none"
  /\ cs.kind = "none"
  /\ \E g \in [ChebyshevXs(data.A, data.B, data.N) \ DOMAIN f -> Ys] :
       /\ f' = f @@ g
       /\ cheb' = CreateChebyshevGrid(data.A, data.B, data.N, f @@ g)
  /\ UNCHANGED <<data, cs, cc, ts, call, sys>>

\* Mutant of DoNewCubicSplineUniform: the spline is built from the Chebyshev
\* Sample Set.
DoNewCubicSplineChebyshev ==
  /\ cheb.kind = "grid"
  /\ cs.kind = "none"
  /\ cs' = NewCubicSpline(cheb)
  /\ UNCHANGED <<data, f, cheb, cc, ts, call, sys>>

\* spline := newCubicSpline(uniformData), in compareInterpolations and in
\* generateHTML alike.
DoNewCubicSplineUniform ==
  /\ cheb.kind = "grid"
  /\ cs.kind = "none"
  /\ cs' = NewCubicSpline(data)
  /\ UNCHANGED <<data, f, cheb, cc, ts, call, sys>>

\* lagrangeInterpolation(chebyshevData, x), x taken on the interval of the
\* uniform Sample Set
DoLagrangeChebyshev ==
  /\ cs.kind = "ok"
  /\ cheb.kind = "grid"
  /\ call.op = "none"
  /\ \E x \in QueryXs(data.Points) :
       call' = [op |-> "lagrangeChebyshev", x |-> x, seg |-> 0,
                value |-> LagrangeInterpolation(cheb, x), panic |-> FALSE]
  /\ UNCHANGED <<data, f, cheb, cs, cc, ts, sys>>

ChebyshevNext ==
  \/ DoCreateGrid
  \/ DoCreateChebyshevGrid
  \/ DoNewCubicSplineUniform
  \/ DoLagrange
  \/ DoLagrangeChebyshev
  \/ DoEvaluate

ChebyshevSpec == Init /\ [][ChebyshevNext]_vars

---------------------------------------------------------------------------
(* The solvers on their own: Init draws a system, an action solves it.     *)

Entries == (-MaxEntry) .. MaxEntry

MatrixOf(n, m) ==
  [rows |-> n, cols |-> n,
   data |-> [i \in 0 .. n - 1 |-> [j \in 0 .. n - 1 |-> FromInt(m[i][j])]]]

VectorOf(n, v) == [i \in 0 .. n - 1 |-> FromInt(v[i])]

\* Every 1 x 1 and 2 x 2 system with matrix entries in Entries and
\* right-hand sides over {0, 1}: singular and zero-diagonal ones included.
SmallSystems ==
  UNION {{[A |-> MatrixOf(n, m), b |-> VectorOf(n, v)] :
            m \in [0 .. n - 1 -> [0 .. n - 1 -> Entries]],
            v \in [0 .. n - 1 -> 0 .. 1]} : n \in 1 .. 2}

\* 3 x 3 systems whose every row has MaxEntry on the diagonal and
\* off-diagonal entries of total magnitude below it; right-hand sides are
\* the unit vectors and the vector of ones.
DominantRows(i) ==
  {r \in [0 .. 2 -> Entries] :
     /\ r[i] = MaxEntry
     /\ IAbs(r[(i + 1) % 3]) + IAbs(r[(i + 2) % 3]) < MaxEntry}

DominantSystems ==
  {[A |-> MatrixOf(3, [i \in 0 .. 2 |-> <<r0, r1, r2>>[i + 1]]),
    b |-> VectorOf(3, v)] :
     r0 \in DominantRows(0), r1 \in DominantRows(1), r2 \in DominantRows(2),
     v \in {u \in [0 .. 2 -> 0 .. 1] :
              u[0] + u[1] + u[2] = 1 \/ u[0] + u[1] + u[2] = 3}}

\* 3 x 3 systems over {0, 1} whose first pivot is zero: the first step of
\* the forward phase is skipped and the later steps work on rows that still
\* have entries left of the diagonal.
ZeroPivotSystems ==
  {[A |-> MatrixOf(3, m), b |-> VectorOf(3, v)] :
     m \in {mm \in [0 .. 2 -> [0 .. 2 -> 0 .. 1]] : mm[0][0] = 0},
     v \in {u \in [0 .. 2 -> 0 .. 1] :
              u[0] + u[1] + u[2] = 1 \/ u[0] + u[1] + u[2] = 3}}

Systems == SmallSystems \cup DominantSystems \cup ZeroPivotSystems

SolverInit ==
  /\ data = NoData
  /\ f = NoPoints
  /\ cheb = NoData
  /\ cs = NoSpline
  /\ cc = NoCoefficientSpline
  /\ ts = NoSweepSpline
  /\ call = NoCall
  /\ \E s \in Systems :
       sys = [kind |-> "input", A |-> s.A, b |-> s.b, solution |-> NoPoints]

\* Mutant of DoSolve: the elimination is done in place, in A and b, instead
\* of in the augmented copy.
DoSolveInPlace ==
  /\ sys.kind \in {"input", "guarded"}
  /\ LET n == sys.A.rows
         aug == ForwardElimination(Augment(sys.A, sys.b), n)
     IN sys' = [kind |-> "guarded",
                A |-> [sys.A EXCEPT !.data =
                         [i \in 0 .. n - 1 |->
                            [j \in 0 .. n - 1 |-> aug[i][j]]]],
                b |-> [i \in 0 .. n - 1 |-> aug[i][n]],
                solution |-> SolveLinearSystem(sys.A, sys.b)]
  /\ UNCHANGED <<data, f, cheb, cs, cc, ts, call>>

\* solution := SolveLinearSystem(A, b), the solver of main.go.  The solver
\* reads A and b through Get and indexing and writes to the matrix it
\* allocates; the caller may call it again with the same A and b.
DoSolve ==
  /\ sys.kind \in {"input", "guarded"}
  /\ sys' = [sys EXCEPT !.kind = "guarded",
                        !.solution = SolveLinearSystem(sys.A, sys.b)]
  /\ UNCHANGED <<data, f, cheb, cs, cc, ts, call>>

\* solution := SolveLinearSystem(A, b), the solver without tolerance tests
DoSolveUnguarded ==
  /\ sys.kind = "input"
  /\ sys' = [sys EXCEPT !.kind = "unguarded",
                        !.solution = SolveLinearSystemUnguarded(sys.A, sys.b)]
  /\ UNCHANGED <<data, f, cheb, cs, cc, ts, call>>

SolverNext ==
  \/ DoSolve
  \/ DoSolveUnguarded

SolverSpec == SolverInit /\ [][SolverNext]_vars

---------------------------------------------------------------------------
(* Properties.                                                             *)

StrictlyAscending(pts) ==
  \A i \in 0 .. Len0(pts) - 2 : RLt(pts[i].X, pts[i + 1].X)

PairwiseDistinct(pts) ==
  \A i, j \in DOMAIN pts : i # j => pts[i].X # pts[j].X

\* A spline built from at least two points with strictly ascending x.
ValidSpline ==
  cs.kind = "ok" /\ Len0(cs.Points) >= 2 /\ StrictlyAscending(cs.Points)

InteriorNodes(s) == 1 .. Len0(s.Points) - 2

\* The state a constructor leaves: no evaluator call made yet.  The calls
\* change neither data nor cs, so a property of data or cs alone is checked
\* there.
NoCallYet == call.op = "none"

\* C1: a spline built from at least two strictly ascending points returns
\* y_i when evaluated at the node x_i, and at every interior node the value
\* of the formula on the segment to the left equals its value on the segment
\* to the right.
C1_SplineInterpolatesNodes ==
  ValidSpline =>
    /\ call.op = "evaluate" =>
         \A i \in DOMAIN cs.Points :
           call.x = cs.Points[i].X =>
             (~ call.panic /\ call.value = cs.Points[i].Y)
    /\ NoCallYet =>
         \A i \in InteriorNodes(cs) :
           /\ SegmentValue(cs, i - 1, cs.Points[i].X) = cs.Points[i].Y
           /\ SegmentValue(cs, i, cs.Points[i].X) = cs.Points[i].Y

\* Evaluate has returned the value at an interior node of a spline whose
\* steps differ and whose second derivative there is not 0.
C1_Witness ==
  /\ ValidSpline
  /\ call.op = "evaluate"
  /\ \E i \in InteriorNodes(cs) :
       /\ call.x = cs.Points[i].X
       /\ cs.SecondDerivatives[i] # Zero
       /\ cs.H[i - 1] # cs.H[i]
       /\ cs.Points[i].Y # Zero

\* C2: on a Sample Set with pairwise distinct abscissas the Lagrange
\* polynomial returns y_i at the node x_i, and the basis product L_i is 1 at
\* node i and 0 at every other node.
C2_LagrangeInterpolatesNodes ==
  (call.op = "lagrange" /\ PairwiseDistinct(data.Points)) =>
    \A k \in DOMAIN data.Points :
      call.x = data.Points[k].X =>
        /\ call.value = data.Points[k].Y
        /\ \A i \in DOMAIN data.Points :
             Basis(data.Points, call.x, i, 0, One)
               = IF i = k THEN One ELSE Zero

\* The polynomial has been evaluated at a node carrying a non-zero y of a
\* Sample Set with at least three distinct abscissas.
C2_Witness ==
  /\ call.op = "lagrange"
  /\ PairwiseDistinct(data.Points)
  /\ Len0(data.Points) >= 3
  /\ \E k \in DOMAIN data.Points :
       call.x = data.Points[k].X /\ data.Points[k].Y # Zero

C4_NaturalBoundary ==
  (cs.kind = "ok" /\ NoCallYet /\ Len0(cs.Points) >= 2
     /\ \A i \in DOMAIN cs.H : RGt(cs.H[i], Zero)) =>
    /\ DOMAIN cs.SecondDerivatives = DOMAIN cs.Points
    /\ cs.SecondDerivatives[0] = Zero
    /\ cs.SecondDerivatives[Len0(cs.Points) - 1] = Zero

\* A spline with positive steps and a non-zero second derivative at both
\* neighbours of the boundary nodes has been built.
C4_Witness ==
  /\ cs.kind = "ok"
  /\ NoCallYet
  /\ Len0(cs.Points) >= 4
  /\ \A i \in DOMAIN cs.H : RGt(cs.H[i], Zero)
  /\ cs.SecondDerivatives[1] # Zero
  /\ cs.SecondDerivatives[Len0(cs.Points) - 2] # Zero

\* Derivatives of the cubic of segment i at x, taken from the values the
\* formula returns: both difference quotients are exact for a cubic.
FirstDerivative(s, i, x) ==
  RDiv(RAdd(RSub(SegmentValue(s, i, RSub(x, Two)),
                 RMul(FromInt(8), SegmentValue(s, i, RSub(x, One)))),
            RSub(RMul(FromInt(8), SegmentValue(s, i, RAdd(x, One))),
                 SegmentValue(s, i, RAdd(x, Two)))),
       FromInt(12))

SecondDerivative(s, i, x) ==
  RAdd(RSub(SegmentValue(s, i, RAdd(x, One)),
            RMul(Two, SegmentValue(s, i, x))),
       SegmentValue(s, i, RSub(x, One)))

\* C5: at every interior node of a spline built from strictly ascending
\* points the cubics of the two adjacent segments have the same first
\* derivative, and the second derivative of both is the solved value
\* SecondDerivatives[i].
C5_DerivativesContinuous ==
  (ValidSpline /\ NoCallYet) =>
    \A i \in InteriorNodes(cs) :
      LET x == cs.Points[i].X
      IN /\ FirstDerivative(cs, i - 1, x) = FirstDerivative(cs, i, x)
         /\ SecondDerivative(cs, i - 1, x) = cs.SecondDerivatives[i]
         /\ SecondDerivative(cs, i, x) = cs.SecondDerivatives[i]

\* A spline whose steps differ on the two sides of an interior node with
\* non-zero slope and non-zero second derivative has been built.
C5_Witness ==
  /\ ValidSpline
  /\ NoCallYet
  /\ \E i \in InteriorNodes(cs) :
       /\ cs.H[i - 1] # cs.H[i]
       /\ cs.SecondDerivatives[i] # Zero
       /\ FirstDerivative(cs, i, cs.Points[i].X) # Zero

RAbs(p) == IF IsFinite(p) /\ p[1] < 0 THEN RNeg(p) ELSE p

RECURSIVE OffDiagonalSum(_, _, _)
OffDiagonalSum(A, i, j) ==
  IF j >= A.cols THEN Zero
  ELSE RAdd(IF j = i THEN Zero ELSE RAbs(A.data[i][j]),
            OffDiagonalSum(A, i, j + 1))

StrictlyDominant(A) ==
  \A i \in 0 .. A.rows - 1 :
    RGt(RAbs(A.data[i][i]), OffDiagonalSum(A, i, 0))

RECURSIVE RowTimes(_, _, _, _)
RowTimes(A, x, i, j) ==
  IF j >= A.cols THEN Zero
  ELSE RAdd(RMul(A.data[i][j], x[j]), RowTimes(A, x, i, j + 1))

\* C6: for a strictly diagonally dominant matrix A the vector returned by
\* SolveLinearSystem(A, b) satisfies A x = b.
C6_SolverRoundTrip ==
  (sys.kind = "guarded" /\ StrictlyDominant(sys.A)) =>
    /\ DOMAIN sys.solution = 0 .. sys.A.rows - 1
    /\ \A i \in 0 .. sys.A.rows - 1 :
         RowTimes(sys.A, sys.solution, i, 0) = sys.b[i]

\* A dominant 3 x 3 system with entries on both sides of the diagonal has
\* been solved and has a solution that is not a vector of integers.
C6_Witness ==
  /\ sys.kind = "guarded"
  /\ StrictlyDominant(sys.A)
  /\ sys.A.rows = 3
  /\ sys.A.data[0][1] # Zero
  /\ sys.A.data[1][0] # Zero
  /\ sys.A.data[2][1] # Zero
  /\ \E i \in 0 .. 2 : sys.solution[i][2] > 1

\* C7: the closed-form Evaluate clamps a point outside the node range to
\* the nearest boundary segment (segment 0 below x_0, segment n-1 above
\* x_n) and returns a value, the index never being left where Points[i+1],
\* H[i] or SecondDerivatives[i+1] is out of range.
C7_EvaluateClamps ==
  (ValidSpline /\ call.op = "evaluate") =>
    LET last == Len0(cs.Points) - 1
    IN /\ ~ call.panic
       /\ call.seg + 1 \in DOMAIN cs.Points
       /\ call.seg \in DOMAIN cs.H
       /\ call.seg + 1 \in DOMAIN cs.SecondDerivatives
       /\ RLt(call.x, cs.Points[0].X) => call.seg = 0
       /\ RGt(call.x, cs.Points[last].X) => call.seg = last - 1

\* C8: a Sample Set with duplicate or non-ascending abscissas is rejected
\* at construction, so LagrangeInterpolation is never run on points with
\* x_i = x_j for some i # j.
C8_DuplicatesRejected ==
  call.op = "lagrange" => PairwiseDistinct(data.Points)

\* C9: grid construction with n < 1 fails and returns no Sample Set, so
\* neither NewCubicSpline nor Evaluate is run on fewer than two points.
C9_SmallGridRejected ==
  /\ cs.kind = "ok" => (data.N >= 1 /\ Len0(cs.Points) >= 2)
  /\ call.op = "evaluate" => (data.N >= 1 /\ Len0(cs.Points) >= 2)

\* C10: SolveLinearSystem raises no failure and swaps no rows: for every
\* square system, singular and zero-diagonal ones included, it returns a
\* vector of n floats, and the first row of the augmented matrix (with a
\* zero pivot a[0][0]: the whole matrix) is as it was after elimination on
\* column 0.
C10_SolverTotalNoSwap ==
  sys.kind \in {"guarded", "unguarded"} =>
    LET n == sys.A.rows
        aug == Augment(sys.A, sys.b)
    IN /\ DOMAIN sys.solution = 0 .. n - 1
       /\ \A i \in 0 .. n - 1 : DOMAIN sys.solution[i] = 1 .. 2
       /\ ForwardElimination(aug, n)[0] = aug[0]
       /\ ForwardFromUnguarded(aug, 0, n)[0] = aug[0]
       /\ sys.A.data[0][0] = Zero => ForwardStep(aug, 0, n) = aug

\* A singular 2 x 2 system with a zero first pivot above a non-zero entry
\* and no solution has been given to the tolerance-guarded solver.
C10_Witness ==
  /\ sys.kind = "guarded"
  /\ sys.A.rows = 2
  /\ sys.A.data[0][0] = Zero
  /\ sys.A.data[0][1] = Zero
  /\ sys.A.data[1][0] # Zero
  /\ sys.b[0] # Zero
  /\ DOMAIN sys.solution = 0 .. 1

---------------------------------------------------------------------------

\* x lies in [x_0, x_n], the first and the last abscissa of pts.
InRange(pts, x) ==
  /\ Len0(pts) >= 1
  /\ RGe(x, pts[0].X)
  /\ RLe(x, pts[Len0(pts) - 1].X)

\* C11: on a Sample Set with strictly ascending abscissas and for x in
\* [x_0, x_n], Evaluate of the coefficient-array variant and Evaluate of the
\* tridiagonal-sweep variant return what the closed-form Evaluate returns on
\* the same Sample Set: the same value, and a panic exactly where it panics.
C11_VariantsAgree ==
  (/\ call.op \in {"evaluateCoefficients", "evaluateSweep"}
   /\ cs.kind = "ok"
   /\ StrictlyAscending(cs.Points)
   /\ InRange(cs.Points, call.x))
    => LET r == Evaluate(cs, call.x)
       IN /\ call.panic = r.panic
          /\ call.value = r.value

\* A sweep-variant call at the midpoint of a segment of a spline with a
\* non-zero second derivative, on nodes that are not equally spaced.
C11_Witness ==
  /\ call.op = "evaluateSweep"
  /\ ~ call.panic
  /\ ValidSpline
  /\ Len0(cs.Points) >= 3
  /\ cs.H[0] # cs.H[1]
  /\ InRange(cs.Points, call.x)
  /\ \A i \in DOMAIN cs.Points : call.x # cs.Points[i].X
  /\ \E i \in InteriorNodes(cs) : cs.SecondDerivatives[i] # Zero
  /\ call.value \notin {Zero, One}

---------------------------------------------------------------------------

---------------------------------------------------------------------------

---------------------------------------------------------------------------

\* The augmented matrix when step i of the forward phase begins.
RECURSIVE ForwardPrefix(_, _, _)
ForwardPrefix(aug, i, n) ==
  IF i = 0 THEN aug ELSE ForwardStep(ForwardPrefix(aug, i - 1, n), i - 1, n)

\* C14: in step i of the forward phase of the guarded solver, when the
\* pivot has |augmented[i][i]| < 1e-12 no row is modified; otherwise every
\* row k > i becomes row k minus factor times row i on the columns i .. n the
\* loop visits, factor being augmented[k][i] / augmented[i][i], so that its
\* entry in column i is 0.  The rows 0 .. i and the columns left of i keep
\* their entries, and the solution returned is the back-substitution of the
\* matrix the steps leave.
C14_ForwardPhase ==
  sys.kind = "guarded"
    => LET n == sys.A.rows
           aug == Augment(sys.A, sys.b)
       IN /\ \A i \in 0 .. n - 1 :
               LET before == ForwardPrefix(aug, i, n)
                   after == ForwardPrefix(aug, i + 1, n)
               IN /\ \A k \in 0 .. i : after[k] = before[k]
                  /\ IF AbsLtTol(before[i][i]) THEN after = before
                     ELSE \A k \in i + 1 .. n - 1 :
                            LET factor == RDiv(before[k][i], before[i][i])
                            IN /\ after[k][i] = Zero
                               /\ \A j \in 0 .. n :
                                    after[k][j] =
                                      IF j < i THEN before[k][j]
                                      ELSE RSub(before[k][j],
                                                RMul(factor, before[i][j]))
          /\ sys.solution = BackSubstitution(ForwardPrefix(aug, n, n), n)

\* A solved 3 x 3 system whose step 0 is skipped on a zero pivot with a
\* non-zero entry below it, and whose step 1 eliminates a non-zero entry.
C14_Witness ==
  /\ sys.kind = "guarded"
  /\ sys.A.rows = 3
  /\ sys.A.data[0][0] = Zero
  /\ sys.A.data[1][0] # Zero
  /\ sys.A.data[1][1] # Zero
  /\ sys.A.data[2][1] # Zero
  /\ ForwardElimination(Augment(sys.A, sys.b), 3)[2][1] = Zero
  /\ ForwardElimination(Augment(sys.A, sys.b), 3)[2][0] # Zero

---------------------------------------------------------------------------

\* The value accumulated for unknown i: augmented[i][n] minus the sum over
\* j > i of augmented[i][j] * solution[j].
Accumulated(U, sol, i, n) ==
  RSub(U[i][n], RowTimes([rows |-> n, cols |-> n, data |-> U], sol, i, i + 1))

\* C15: in the solution the guarded solver returns, solution[i] is the
\* accumulated value augmented[i][n] - sum over j > i of augmented[i][j] *
\* solution[j], divided by augmented[i][i] when |augmented[i][i]| > 1e-12,
\* and the accumulated value itself, not divided, otherwise.
C15_BackSubstitution ==
  sys.kind = "guarded"
    => LET n == sys.A.rows
           U == ForwardElimination(Augment(sys.A, sys.b), n)
       IN /\ DOMAIN sys.solution = 0 .. n - 1
          /\ \A i \in 0 .. n - 1 :
               sys.solution[i] =
                 IF AbsGtTol(U[i][i])
                 THEN RDiv(Accumulated(U, sys.solution, i, n), U[i][i])
                 ELSE Accumulated(U, sys.solution, i, n)

\* A solved system with a zero pivot in a row whose accumulated value is
\* not zero, and another row that was divided by a pivot other than 1.
C15_Witness ==
  /\ sys.kind = "guarded"
  /\ LET n == sys.A.rows
         U == ForwardElimination(Augment(sys.A, sys.b), n)
     IN /\ \E i \in 0 .. n - 1 :
             /\ U[i][i] = Zero
             /\ sys.solution[i] # Zero
             /\ \E j \in i + 1 .. n - 1 :
                  U[i][j] # Zero /\ sys.solution[j] # Zero
        /\ \E i \in 0 .. n - 1 :
             /\ U[i][i] \notin {Zero, One}
             /\ sys.solution[i] # Zero

---------------------------------------------------------------------------

\* C16: the system NewCubicSpline solves for the second derivatives has one
\* row per node and is tridiagonal; its first and its last row hold a single
\* 1, on the diagonal, with right-hand side 0; the row of an interior node i
\* holds h_(i-1), 2 (h_(i-1) + h_i), h_i in the columns i-1, i, i+1, zeros
\* elsewhere, with right-hand side
\* 6 ((y_(i+1) - y_i) / h_i - (y_i - y_(i-1)) / h_(i-1)); and the matrix is
\* strictly diagonally dominant when every step width is positive.
C16_SplineSystem ==
  (cs.kind = "ok" /\ NoCallYet)
    => LET pts == cs.Points
           np == Len0(pts)
           hh == [i \in 0 .. np - 2 |-> RSub(pts[i + 1].X, pts[i].X)]
           M == SplineMatrix(pts, cs.H)
           r == SplineRhs(pts, cs.H)
       IN /\ cs.H = hh
          /\ M.rows = np /\ M.cols = np
          /\ DOMAIN r = 0 .. np - 1
          /\ \A i, j \in 0 .. np - 1 :
               (i - j > 1 \/ j - i > 1) => M.data[i][j] = Zero
          /\ \A i \in {0, np - 1} :
               /\ r[i] = Zero
               /\ \A j \in 0 .. np - 1 :
                    M.data[i][j] = IF j = i THEN One ELSE Zero
          /\ \A i \in 1 .. np - 2 :
               /\ M.data[i][i - 1] = hh[i - 1]
               /\ M.data[i][i] = RMul(Two, RAdd(hh[i - 1], hh[i]))
               /\ M.data[i][i + 1] = hh[i]
               /\ r[i] = RMul(Six,
                              RSub(RDiv(RSub(pts[i + 1].Y, pts[i].Y), hh[i]),
                                   RDiv(RSub(pts[i].Y, pts[i - 1].Y),
                                        hh[i - 1])))
          /\ (\A i \in 0 .. np - 2 : RGt(hh[i], Zero)) => StrictlyDominant(M)
          /\ cs.SecondDerivatives = SolveLinearSystem(M, r)

\* A spline on four or more ascending nodes with a non-zero right-hand side
\* in an interior row.
C16_Witness ==
  /\ cs.kind = "ok"
  /\ NoCallYet
  /\ Len0(cs.Points) >= 4
  /\ \A i \in DOMAIN cs.H : RGt(cs.H[i], Zero)
  /\ \E i \in InteriorNodes(cs) : SplineRhs(cs.Points, cs.H)[i] # Zero
  /\ \E i \in InteriorNodes(cs) : cs.SecondDerivatives[i] # Zero

---------------------------------------------------------------------------

\* The segments of pts that hold x: x_j <= x <= x_(j+1).
SegmentsHolding(pts, x) ==
  {j \in 0 .. Len0(pts) - 2 : RGe(x, pts[j].X) /\ RLe(x, pts[j + 1].X)}

\* C17: Evaluate of the tridiagonal-sweep variant returns a value for every
\* x: it uses segment 0 when x < x_0, segment n-1 when x > x_n, the first
\* segment that holds x when x is in [x_0, x_n], and the segment it uses is
\* always one of 0 .. n-1, n+1 being the number of points.
C17_SweepEvaluateClamps ==
  call.op = "evaluateSweep"
    => LET pts == ts.Points
           n == Len0(pts) - 1
       IN /\ ~ call.panic
          /\ call.seg \in 0 .. n - 1
          /\ RLt(call.x, pts[0].X) => call.seg = 0
          /\ RGt(call.x, pts[n].X) => call.seg = n - 1
          /\ InRange(pts, call.x)
               => /\ call.seg \in SegmentsHolding(pts, call.x)
                  /\ \A j \in SegmentsHolding(pts, call.x) : call.seg <= j

\* The same on the splines of at least two strictly ascending points.
SweepEvaluateClampsOnValidSets ==
  (/\ call.op = "evaluateSweep"
   /\ Len0(ts.Points) >= 2
   /\ StrictlyAscending(ts.Points))
    => C17_SweepEvaluateClamps

---------------------------------------------------------------------------

\* C18: the scan of the closed-form Evaluate stops at the first segment that
\* holds x, x_i <= x <= x_(i+1), and runs to the last index when none does.
\* On strictly ascending nodes it therefore stops at segment k-1, the left
\* neighbour, when x is the interior node x_k, and at a segment i <= n-1
\* when x is in [x_0, x_n], n+1 being the number of points.
C18_SegmentSearch ==
  (call.op = "evaluate" /\ cs.kind = "ok")
    => LET pts == cs.Points
           n == Len0(pts) - 1
           holding == SegmentsHolding(pts, call.x)
       IN /\ IF holding = {} THEN call.seg = n
             ELSE /\ call.seg \in holding
                  /\ \A j \in holding : call.seg <= j
          /\ StrictlyAscending(pts)
               => /\ \A k \in InteriorNodes(cs) :
                       call.x = pts[k].X => call.seg = k - 1
                  /\ InRange(pts, call.x) => (call.seg <= n - 1 /\ ~ call.panic)

\* Evaluate called at an interior node x_k, k >= 2, of strictly ascending
\* nodes: both segment k-1 and segment k hold x.
C18_Witness ==
  /\ call.op = "evaluate"
  /\ ValidSpline
  /\ \E k \in InteriorNodes(cs) :
       /\ k >= 2
       /\ call.x = cs.Points[k].X
       /\ {k - 1, k} \subseteq SegmentsHolding(cs.Points, call.x)
       /\ call.seg = k - 1

---------------------------------------------------------------------------

\* Every pivot the guarded solver meets on A, b, in the forward phase and in
\* the back-substitution, has magnitude above 1e-12.
AllPivotsAboveTol(A, b) ==
  LET U == ForwardElimination(Augment(A, b), A.rows)
  IN \A i \in 0 .. A.rows - 1 : AbsGtTol(U[i][i])

\* C19: on a system whose every pivot has magnitude above 1e-12 the guarded
\* solver and the unguarded solver return the same solution vector; the two
\* differ only on a system with a pivot of magnitude at most 1e-12.
C19_SolversAgree ==
  /\ (sys.kind = "guarded" /\ AllPivotsAboveTol(sys.A, sys.b))
       => sys.solution = SolveLinearSystemUnguarded(sys.A, sys.b)
  /\ (sys.kind = "unguarded" /\ AllPivotsAboveTol(sys.A, sys.b))
       => sys.solution = SolveLinearSystem(sys.A, sys.b)
  /\ (sys.kind = "unguarded"
        /\ sys.solution # SolveLinearSystem(sys.A, sys.b))
       => ~ AllPivotsAboveTol(sys.A, sys.b)

\* The unguarded solver has solved a 3 x 3 system with entries below and
\* above the diagonal, every pivot above the tolerance, and a solution that
\* is not a vector of integers.
C19_Witness ==
  /\ sys.kind = "unguarded"
  /\ sys.A.rows = 3
  /\ AllPivotsAboveTol(sys.A, sys.b)
  /\ sys.A.data[1][0] # Zero
  /\ sys.A.data[2][1] # Zero
  /\ sys.A.data[0][1] # Zero
  /\ \E i \in 0 .. 2 : IsFinite(sys.solution[i]) /\ sys.solution[i][2] # 1

---------------------------------------------------------------------------

\* C20: in the driver with Chebyshev nodes the spline is the one built from
\* the uniform Sample Set: its points are the points of data, not those of
\* the Chebyshev Sample Set, which only lagrangeInterpolation receives; so on
\* an interval with b > a every step width of the spline is positive.
C20_SplineFromUniformOnly ==
  (cs.kind = "ok" /\ cheb.kind = "grid")
    => /\ cs.Points = data.Points
       /\ cs.H = StepWidths(data.Points)
       /\ call.op = "evaluate" => call.seg = FindSegment(data.Points, call.x, 0)
       /\ RGt(data.B, data.A)
            => \A i \in DOMAIN cs.H : RGt(cs.H[i], Zero)

\* lagrangeInterpolation was called on a descending Chebyshev Sample Set of
\* three nodes, beside a spline of two segments.
C20_Witness ==
  /\ cs.kind = "ok"
  /\ cheb.kind = "grid"
  /\ call.op = "lagrangeChebyshev"
  /\ RGt(data.B, data.A)
  /\ Len0(cs.H) = 2
  /\ Len0(cheb.Points) = 3
  /\ \A i \in 0 .. 1 : RGt(cheb.Points[i].X, cheb.Points[i + 1].X)
  /\ cheb.Points # data.Points
====
